---- MODULE Spec2Model ----
(***************************************************************************)
(* Model of the UBIGEO Venezuela query layer (app/routers/ubigeo_v1.py).   *)
(*                                                                         *)
(* Strings are sequences of characters, so that slicing, concatenation,    *)
(* lower() and unidecode() are computed character by character; a          *)
(* non-ASCII character is written by name ("a_acute", "U+5317").  The JSON *)
(* document is a record tree: "estados" is a sequence of states, each with *)
(* "municipios", each with "parroquias".                                   *)
(* Every endpoint is one action: the coroutines contain no suspension      *)
(* point (every await is on another coroutine of this module, the file is  *)
(* read with blocking I/O), so a request runs from start to end without    *)
(* interleaving with another one.                                          *)
(***************************************************************************)
EXTENDS Integers, Sequences, FiniteSets, TLC

VARIABLES
    fs,      \* the file system: path -> [status, data]
    loaded,  \* object graph built by the latest json.load, after the handler's in-place writes
    req,     \* the request being answered (NoReq between requests)
    resp,    \* the response of that request (NoResp between requests)
    rem      \* the first request of the run and its response (history)

vars == <<fs, loaded, req, resp, rem>>

(***************************************************************************)
(* Bounds                                                                  *)
(***************************************************************************)
MaxAlt == 1      \* alternate names per municipality / parish
MaxLen == 2      \* length of the texts given to the normaliser

(***************************************************************************)
(* Python string primitives                                                *)
(***************************************************************************)
Min(a, b) == IF a < b THEN a ELSE b

\* s[0:n]: never raises, a short string is returned whole
PySlice(s, n) == SubSeq(s, 1, Min(n, Len(s)))

\* str.lower(), character by character
LowerChar(c) ==
    CASE c = "T" -> "t"
      [] c = "A" -> "a"
      [] c = "A_acute" -> "a_acute"
      [] c = "Z" -> "z"
      [] c = "U" -> "u"
      [] c = "C" -> "c"
      [] c = "B" -> "b"
      [] OTHER   -> c

RECURSIVE lower(_)
lower(s) == IF s = <<>> THEN <<>> ELSE <<LowerChar(Head(s))>> \o lower(Tail(s))

\* unidecode(): each character is replaced by its ASCII transliteration,
\* which is a string of zero or more characters
UnidecodeChar(c) ==
    CASE c = "a_acute" -> <<"a">>
      [] c = "A_acute" -> <<"A">>
      [] c = "u_acute" -> <<"u">>
      [] c = "n_tilde" -> <<"n">>
      [] c = "U+5317" -> <<"B", "e", "i", " ">>
      [] OTHER   -> <<c>>

RECURSIVE unidecode(_)
unidecode(s) == IF s = <<>> THEN <<>> ELSE UnidecodeChar(Head(s)) \o unidecode(Tail(s))

\* variant: the text is not lowercased
normalize_no_lower(text) == unidecode(text)

\* the comparison key used by every by-name endpoint
normalize(text) == unidecode(lower(text))

(***************************************************************************)
(* Values                                                                  *)
(***************************************************************************)
DATA_FILE == "/code/app/data/ubigeo_ven.json"

NoHeap  == [kind |-> "noheap"]
Heap(h) == [kind |-> "heap", val |-> h]
NoReq   == [op |-> "none"]
NoResp  == [kind |-> "none"]
NoRem   == [set |-> FALSE]

False     == [kind |-> "false"]        \* the literal false
Exception == [kind |-> "exception"]    \* an exception leaves the handler
Null      == [kind |-> "null"]         \* None, serialised as null
Item(v)   == [kind |-> "item", val |-> v]
List(v)   == [kind |-> "list", val |-> v]

\* d[k] = v on a dict
SetItem(d, k, v) == (k :> v) @@ d

(***************************************************************************)
(* Datasets                                                                *)
(***************************************************************************)
Ta == <<"T", "a_acute">>
TA == <<"T", "A">>
Zu == <<"Z", "u">>
Ca == <<"C", "a">>

PrimaryPool == {Ta, Zu}
AltPool     == {TA, Ca}

\* sequences without repetition over S, of length at most n
RECURSIVE SeqsUpTo(_, _)
SeqsUpTo(S, n) ==
    IF n = 0 THEN {<<>>}
    ELSE LET R == SeqsUpTo(S, n - 1)
         IN  R \cup {Append(r, x) : r \in {q \in R : Len(q) = n - 1},
                                    x \in S}

NoRepeat(s) == \A i, j \in 1..Len(s) : i # j => s[i] # s[j]

AltSeqs == {a \in SeqsUpTo(AltPool, MaxAlt) : NoRepeat(a)}

\* the name part of a municipality or parish
NameSpecs == [nombre : PrimaryPool, nombres_alternos : AltSeqs]
DefaultA  == [nombre |-> Ta, nombres_alternos |-> <<>>]
DefaultB  == [nombre |-> Zu, nombres_alternos |-> <<Ca>>]

Schemes == {"prefix4", "suffix00"}
Digit   == <<"1", "2", "3">>
StateCodes == << <<"0", "7">>, <<"0", "8">> >>

MuniPrefix(i, j) == StateCodes[i] \o <<"0", Digit[j]>>
MuniCode(scheme, i, j) ==
    IF scheme = "suffix00" THEN MuniPrefix(i, j) \o <<"0", "0">> ELSE MuniPrefix(i, j)
ParishCode(i, j, k) == MuniPrefix(i, j) \o <<"0", Digit[k]>>

Parish(i, j, k, ns) ==
    [codigo |-> ParishCode(i, j, k), nombre |-> ns.nombre,
     nombres_alternos |-> ns.nombres_alternos]

Muni(scheme, i, j, ns, pnames) ==
    [codigo |-> MuniCode(scheme, i, j), nombre |-> ns.nombre,
     nombres_alternos |-> ns.nombres_alternos,
     parroquias |-> [k \in 1..Len(pnames) |-> Parish(i, j, k, pnames[k])]]

\* two states; the first has two municipalities, the first of which has two parishes
Dataset(scheme, sname2, m1, m2, p1, p2) ==
    [estados |-> <<
        [codigo |-> StateCodes[1], nombre |-> Ta,
         municipios |-> << Muni(scheme, 1, 1, m1, <<p1, p2>>),
                           Muni(scheme, 1, 2, m2, <<DefaultA>>) >>],
        [codigo |-> StateCodes[2], nombre |-> sname2,
         municipios |-> << Muni(scheme, 2, 1, DefaultA, <<DefaultB>>) >>]
     >>]

Datasets ==
    {Dataset(sc, sn, DefaultA, DefaultB, DefaultA, DefaultB) : sc \in Schemes, sn \in {Zu, TA}}
    \cup {Dataset(sc, Zu, m1, m2, DefaultA, DefaultB) : sc \in Schemes, m1 \in NameSpecs, m2 \in NameSpecs}
    \cup {Dataset(sc, Zu, DefaultA, DefaultB, p1, p2) : sc \in Schemes, p1 \in NameSpecs, p2 \in NameSpecs}
    \cup {[estados |-> <<>>]}

Files ==
    {[status |-> "ok", data |-> d] : d \in Datasets}
    \cup {[status |-> "absent"], [status |-> "corrupt"]}

(***************************************************************************)
(* read_json_file                                                          *)
(***************************************************************************)
\* variant: the parsed document is kept in a module-level cache and shared by
\* the requests
read_json_file_cached(file_path) ==
    LET f == fs[file_path]
    IN  CASE loaded.kind = "heap"  -> Item(loaded.val)
          [] f.status = "absent"   -> Null
          [] f.status = "corrupt"  -> Exception
          [] OTHER                 -> Item(f.data)

\* variant: FileNotFoundError is not caught
read_json_file_uncaught(file_path) ==
    LET f == fs[file_path]
    IN  IF f.status = "ok" THEN Item(f.data) ELSE Exception

\* json.load builds a new object graph on every call; FileNotFoundError is
\* caught and turned into None, a decoding error is not caught
read_json_file(file_path) ==
    LET f == fs[file_path]
    IN  CASE f.status = "absent"  -> Null
          [] f.status = "corrupt" -> Exception
          [] OTHER                -> Item(f.data)

(***************************************************************************)
(* Handlers.  A handler's outcome is an exception, a value (get_all,       *)
(* get_list_states), the literal False, or a reference (path) into the     *)
(* object graph it loaded; "heap" is that graph after the handler's        *)
(* in-place writes.  The body of a handler that follows its inner call is  *)
(* an operator of its own, which takes the inner call's outcome.           *)
(***************************************************************************)
Raise       == [kind |-> "exception", heap |-> NoHeap]
Value(v, h) == [kind |-> "value", out |-> v, heap |-> h]
Falsy(h)    == [kind |-> "false", heap |-> h]
Ref(h, p)   == [kind |-> "ref", heap |-> h, path |-> p]

\* the object a path designates
Deref(h, p) ==
    CASE Len(p) = 1 -> h.estados[p[1]]
      [] Len(p) = 2 -> h.estados[p[1]].municipios[p[2]]
      [] OTHER      -> h.estados[p[1]].municipios[p[2]].parroquias[p[3]]

\* obj[k] = v on the object a path designates
Assign(h, p, k, v) ==
    IF Len(p) = 2
    THEN [h EXCEPT !.estados[p[1]].municipios[p[2]] = SetItem(@, k, v)]
    ELSE [h EXCEPT !.estados[p[1]].municipios[p[2]].parroquias[p[3]] = SetItem(@, k, v)]

\* variant: the loop does not return at the first hit, the last hit is kept
LastHit(hits) == IF hits = {} THEN 0 ELSE CHOOSE i \in hits : \A j \in hits : j <= i

\* "for x in xs: if cond(x): return x": the index of the first hit, 0 if none
FirstHit(hits) == IF hits = {} THEN 0 ELSE CHOOSE i \in hits : \A j \in hits : i <= j

\* the end of such a loop over the children of the object at path p:
\* "return item" at the hit, "return False" after the loop
Found(h, p, hit) == IF hit = 0 THEN Falsy(Heap(h)) ELSE Ref(Heap(h), Append(p, hit))

\* "data = item; data[k] = v" before the return
Attach(found, k, v) ==
    IF found.kind # "ref" THEN found
    ELSE Ref(Heap(Assign(found.heap.val, found.path, k, v)), found.path)

\* variant: the alternate names are not scanned
NameHit_primary_only(item, name) ==
    unidecode(lower(item.nombre)) = unidecode(lower(name))

\* the test of the by-name loops: the primary name, then each alternate name
NameHit(item, name) ==
    \/ unidecode(lower(item.nombre)) = unidecode(lower(name))
    \/ \E a \in 1..Len(item.nombres_alternos) :
          unidecode(lower(item.nombres_alternos[a])) = unidecode(lower(name))

\* line 67, given what read_json_file returned
AllOf(json_data) ==
    CASE json_data.kind = "exception" -> Raise
      [] json_data.kind = "null"      -> Value(Null, NoHeap)
      [] OTHER                        -> Value(json_data, Heap(json_data.val))

get_all == AllOf(read_json_file(DATA_FILE))

\* lines 80-84, given what read_json_file returned
StateNamesOf(json_data) ==
    CASE json_data.kind = "exception" -> Raise
      [] json_data.kind = "null"      -> Value(List(<<>>), NoHeap)
      [] OTHER ->
           Value(List([i \in 1..Len(json_data.val.estados) |->
                          json_data.val.estados[i].nombre]),
                 Heap(json_data.val))

get_list_states == StateNamesOf(read_json_file(DATA_FILE))

\* lines 98-102, given what read_json_file returned
StateByIdIn(json_data, state_id) ==
    CASE json_data.kind = "exception" -> Raise
      [] json_data.kind = "null"      -> Falsy(NoHeap)
      [] OTHER ->
           Found(json_data.val, <<>>,
                 FirstHit({i \in 1..Len(json_data.val.estados) :
                              json_data.val.estados[i].codigo = state_id}))

get_item_state_by_id(state_id) == StateByIdIn(read_json_file(DATA_FILE), state_id)

\* lines 116-120, given what read_json_file returned
StateByNameIn(json_data, state_name) ==
    CASE json_data.kind = "exception" -> Raise
      [] json_data.kind = "null"      -> Falsy(NoHeap)
      [] OTHER ->
           Found(json_data.val, <<>>,
                 FirstHit({i \in 1..Len(json_data.val.estados) :
                              unidecode(lower(json_data.val.estados[i].nombre))
                                  = unidecode(lower(state_name))}))

\* variant: the requested name is compared as given
StateByNameRawIn(json_data, state_name) ==
    CASE json_data.kind = "exception" -> Raise
      [] json_data.kind = "null"      -> Falsy(NoHeap)
      [] OTHER ->
           Found(json_data.val, <<>>,
                 FirstHit({i \in 1..Len(json_data.val.estados) :
                              unidecode(lower(json_data.val.estados[i].nombre))
                                  = state_name}))

get_item_state_by_name_raw(state_name) ==
    StateByNameRawIn(read_json_file(DATA_FILE), state_name)

get_item_state_by_name(state_name) == StateByNameIn(read_json_file(DATA_FILE), state_name)

\* lines 136-143, given the state found; attached is the value written to
\* "codigo_estado"
MunicipalityByIdIn(state, municipality_id, attached) ==
    IF state.kind # "ref" THEN state
    ELSE Attach(Found(state.heap.val, state.path,
                      FirstHit({j \in 1..Len(Deref(state.heap.val, state.path).municipios) :
                                   Deref(state.heap.val, state.path).municipios[j].codigo
                                       = municipality_id})),
                "codigo_estado", attached)

\* variant: the whole municipality code is attached as the state code
get_item_municipality_by_id_whole(municipality_id) ==
    MunicipalityByIdIn(get_item_state_by_id(PySlice(municipality_id, 2)),
                       municipality_id, municipality_id)

get_item_municipality_by_id(municipality_id) ==
    MunicipalityByIdIn(get_item_state_by_id(PySlice(municipality_id, 2)),
                       municipality_id, PySlice(municipality_id, 2))

\* lines 166-167 and 172-174: codigo_estado = municipality_item["codigo"][0:2]
AttachStateCode(found) ==
    IF found.kind # "ref" THEN found
    ELSE Attach(found, "codigo_estado",
                PySlice(Deref(found.heap.val, found.path).codigo, 2))

\* lines 159-175, given the state found
MunicipalityByNameIn(state_data, municipality_name) ==
    IF state_data.kind # "ref" THEN state_data
    ELSE AttachStateCode(
            Found(state_data.heap.val, state_data.path,
                  FirstHit({j \in 1..Len(Deref(state_data.heap.val, state_data.path).municipios) :
                               NameHit(Deref(state_data.heap.val, state_data.path).municipios[j],
                                       municipality_name)})))

get_item_municipality_by_name(state_name, municipality_name) ==
    MunicipalityByNameIn(get_item_state_by_name(state_name), municipality_name)

\* data["codigo_municipio"] = mc; data["codigo_estado"] = municipality["codigo_estado"]
AttachAncestors(found, mc, municipality) ==
    Attach(Attach(found, "codigo_municipio", mc), "codigo_estado", municipality.codigo_estado)

\* lines 191-201, given the municipality found
ParishByIdIn(municipality, parish_id, municipality_code) ==
    IF municipality.kind # "ref" THEN municipality
    ELSE AttachAncestors(
            Found(municipality.heap.val, municipality.path,
                  FirstHit({k \in 1..Len(Deref(municipality.heap.val, municipality.path).parroquias) :
                               Deref(municipality.heap.val, municipality.path).parroquias[k].codigo
                                   = parish_id})),
            municipality_code,
            Deref(municipality.heap.val, municipality.path))

\* variant: the municipality is subscripted without testing it, which raises
\* TypeError when the municipality lookup answered False
ParishByIdUnguardedIn(municipality, parish_id, municipality_code) ==
    IF municipality.kind # "ref" THEN Raise
    ELSE ParishByIdIn(municipality, parish_id, municipality_code)

get_item_parish_by_id_unguarded(parish_id) ==
    ParishByIdUnguardedIn(get_item_municipality_by_id(PySlice(parish_id, 4) \o <<"0", "0">>),
                          parish_id, PySlice(parish_id, 4) \o <<"0", "0">>)

\* variant: the municipality is looked up under the 4-digit prefix
get_item_parish_by_id_prefix(parish_id) ==
    ParishByIdIn(get_item_municipality_by_id(PySlice(parish_id, 4)),
                 parish_id, PySlice(parish_id, 4))

get_item_parish_by_id(parish_id) ==
    ParishByIdIn(get_item_municipality_by_id(PySlice(parish_id, 4) \o <<"0", "0">>),
                 parish_id, PySlice(parish_id, 4) \o <<"0", "0">>)

\* lines 219-239, given the municipality found
ParishByNameIn(municipality_data, parish_name) ==
    IF municipality_data.kind # "ref" THEN municipality_data
    ELSE AttachAncestors(
            Found(municipality_data.heap.val, municipality_data.path,
                  FirstHit({k \in 1..Len(Deref(municipality_data.heap.val,
                                               municipality_data.path).parroquias) :
                               NameHit(Deref(municipality_data.heap.val,
                                             municipality_data.path).parroquias[k],
                                       parish_name)})),
            Deref(municipality_data.heap.val, municipality_data.path).codigo,
            Deref(municipality_data.heap.val, municipality_data.path))

get_item_parish(state_name, municipality_name, parish_name) ==
    ParishByNameIn(get_item_municipality_by_name(state_name, municipality_name), parish_name)

\* what the router serialises for a handler outcome
Response(o) ==
    CASE o.kind = "exception" -> Exception
      [] o.kind = "false"     -> False
      [] o.kind = "value"     -> o.out
      [] OTHER                -> Item(Deref(o.heap.val, o.path))

(***************************************************************************)
(* Request inputs                                                          *)
(***************************************************************************)
QueryNames == {<<"t", "a">>, <<"T", "A_acute">>, <<"z", "u_acute">>, <<"c", "A">>}

StateIds  == {<<"0", "7">>, <<"0", "8">>, <<"0", "9">>, <<"0">>, <<>>}
MuniIds   == {<<"0", "7", "0", "1">>, <<"0", "7", "0", "2">>, <<"0", "7", "0", "3">>,
              <<"0", "8", "0", "1">>,
              <<"0", "7", "0", "1", "0", "0">>, <<"0", "7", "0", "2", "0", "0">>,
              <<"0", "7", "0", "3", "0", "0">>, <<"0", "8", "0", "1", "0", "0">>,
              <<"0", "9", "0", "1">>, <<"0", "7">>, <<"0">>}
ParishIds == {<<"0", "7", "0", "1", "0", "1">>, <<"0", "7", "0", "1", "0", "2">>,
              <<"0", "7", "0", "1", "0", "3">>, <<"0", "7", "0", "2", "0", "1">>,
              <<"0", "8", "0", "1", "0", "1">>, <<"0", "7", "0", "3", "0", "1">>,
              <<"0", "9", "0", "1", "0", "1">>, <<"0", "7", "0", "1">>, <<"0", "7">>}

(***************************************************************************)
(* Actions: one per endpoint, and the router's reply                       *)
(***************************************************************************)
Serve(r, o) ==
    /\ req = NoReq
    /\ req' = r
    /\ resp' = Response(o)
    /\ loaded' = o.heap
    /\ UNCHANGED fs

GetAll ==
    Serve([op |-> "all"], get_all)

GetListStates ==
    Serve([op |-> "states"], get_list_states)

GetItemStateById ==
    \E id \in StateIds :
        Serve([op |-> "state_by_id", id |-> id], get_item_state_by_id(id))

GetItemStateByName ==
    \E sn \in QueryNames :
        Serve([op |-> "state_by_name", state |-> sn], get_item_state_by_name(sn))

GetItemMunicipalityById ==
    \E id \in MuniIds :
        Serve([op |-> "municipality_by_id", id |-> id], get_item_municipality_by_id(id))

GetItemMunicipalityByName ==
    \E sn \in QueryNames, mn \in QueryNames :
        Serve([op |-> "municipality_by_name", state |-> sn, municipality |-> mn],
              get_item_municipality_by_name(sn, mn))

GetItemParishById ==
    \E id \in ParishIds :
        Serve([op |-> "parish_by_id", id |-> id], get_item_parish_by_id(id))

GetItemParish ==
    \E sn \in QueryNames, mn \in QueryNames, pn \in QueryNames :
        Serve([op |-> "parish_by_name", state |-> sn, municipality |-> mn, parish |-> pn],
              get_item_parish(sn, mn, pn))

\* the response is sent; the loaded object graph is garbage from here on
Reply ==
    /\ req # NoReq
    /\ req' = NoReq
    /\ resp' = NoResp
    /\ UNCHANGED <<fs, loaded>>

Endpoints ==
    \/ GetAll
    \/ GetListStates
    \/ GetItemStateById
    \/ GetItemStateByName
    \/ GetItemMunicipalityById
    \/ GetItemMunicipalityByName
    \/ GetItemParishById
    \/ GetItemParish

Init ==
    /\ \E f \in Files : fs = [p \in {DATA_FILE} |-> f]
    /\ loaded = NoHeap
    /\ req = NoReq
    /\ resp = NoResp
    /\ rem = NoRem

Next ==
    \/ GetAll /\ UNCHANGED rem
    \/ GetListStates /\ UNCHANGED rem
    \/ GetItemStateById /\ UNCHANGED rem
    \/ GetItemStateByName /\ UNCHANGED rem
    \/ GetItemMunicipalityById /\ UNCHANGED rem
    \/ GetItemMunicipalityByName /\ UNCHANGED rem
    \/ GetItemParishById /\ UNCHANGED rem
    \/ GetItemParish /\ UNCHANGED rem
    \/ Reply /\ UNCHANGED rem

Spec == Init /\ [][Next]_vars

(***************************************************************************)
(* The same endpoints, with the first request of the run and its response  *)
(* recorded in rem                                                         *)
(***************************************************************************)
FrameFiles ==
    {[status |-> "ok", data |-> Dataset(sc, Zu, DefaultA, DefaultB, DefaultA, DefaultB)] :
        sc \in Schemes}
    \cup {[status |-> "absent"]}

InitFrame ==
    /\ \E f \in FrameFiles : fs = [p \in {DATA_FILE} |-> f]
    /\ loaded = NoHeap
    /\ req = NoReq
    /\ resp = NoResp
    /\ rem = NoRem

Remember ==
    rem' = IF rem.set THEN rem
           ELSE [set |-> TRUE, file |-> fs[DATA_FILE], req |-> req', resp |-> resp']

NextFrame ==
    \/ GetAll /\ Remember
    \/ GetListStates /\ Remember
    \/ GetItemStateById /\ Remember
    \/ GetItemStateByName /\ Remember
    \/ GetItemMunicipalityById /\ Remember
    \/ GetItemMunicipalityByName /\ Remember
    \/ GetItemParishById /\ Remember
    \/ GetItemParish /\ Remember
    \/ Reply /\ UNCHANGED rem

SpecFrame == InitFrame /\ [][NextFrame]_vars

(***************************************************************************)
(* The normaliser on its own: texts of bounded length are normalised, and  *)
(* the result is fed back                                                  *)
(***************************************************************************)
Tachira == <<"T", "a_acute", "c", "h", "i", "r", "a">>
tachira == <<"t", "a", "c", "h", "i", "r", "a">>

\* ASCII characters and accented Latin letters
LatinChars == {"T", "t", "a", "A", "a_acute", "A_acute", "n_tilde", "c", "h", "i", "r"}
NormChars  == {"T", "t", "a", "A_acute", "a_acute", "n_tilde", "U+5317"}

RECURSIVE Texts(_, _)
Texts(S, n) ==
    IF n = 0 THEN {<<>>}
    ELSE LET R == Texts(S, n - 1)
         IN  R \cup {Append(r, x) : r \in {q \in R : Len(q) = n - 1}, x \in S}

InitNorm ==
    /\ fs = [p \in {DATA_FILE} |-> [status |-> "absent"]]
    /\ loaded = NoHeap
    /\ \E x \in Texts(NormChars, MaxLen) \cup {Tachira, tachira} :
          req = [op |-> "normalize", text |-> x]
    /\ resp = NoResp
    /\ rem = NoRem

Normalize ==
    /\ req.op = "normalize"
    /\ resp = NoResp
    /\ resp' = [kind |-> "text", val |-> normalize(req.text)]
    /\ UNCHANGED <<fs, loaded, req, rem>>

Renormalize ==
    /\ resp.kind = "text"
    /\ req' = [op |-> "normalize", text |-> resp.val]
    /\ resp' = NoResp
    /\ UNCHANGED <<fs, loaded, rem>>

NextNorm ==
    \/ Normalize
    \/ Renormalize

SpecNorm == InitNorm /\ [][NextNorm]_vars

(***************************************************************************)
(* Vocabulary of the properties: the stored tree and its data model        *)
(***************************************************************************)
FileOk  == fs[DATA_FILE].status = "ok"
Estados == fs[DATA_FILE].data.estados

StateAt(i)        == Estados[i]
MuniAt(i, j)      == Estados[i].municipios[j]
ParishAt(i, j, k) == Estados[i].municipios[j].parroquias[k]

StateIx        == 1..Len(Estados)
MuniIx(i)      == 1..Len(Estados[i].municipios)
ParishIx(i, j) == 1..Len(Estados[i].municipios[j].parroquias)

HasPrefix(code, n, pre) == Len(code) >= n /\ SubSeq(code, 1, n) = pre

\* codes are unique among siblings
UniqueCodes ==
    /\ \A i, i2 \in StateIx : StateAt(i).codigo = StateAt(i2).codigo => i = i2
    /\ \A i \in StateIx : \A j, j2 \in MuniIx(i) :
          MuniAt(i, j).codigo = MuniAt(i, j2).codigo => j = j2
    /\ \A i \in StateIx : \A j \in MuniIx(i) : \A k, k2 \in ParishIx(i, j) :
          ParishAt(i, j, k).codigo = ParishAt(i, j, k2).codigo => k = k2

\* a municipality code starts with the code of its state
PrefixInvariant ==
    \A i \in StateIx :
        /\ Len(StateAt(i).codigo) = 2
        /\ \A j \in MuniIx(i) : HasPrefix(MuniAt(i, j).codigo, 2, StateAt(i).codigo)

\* the data model with 4-digit municipality codes
FourDigitModel ==
    /\ UniqueCodes
    /\ PrefixInvariant
    /\ \A i \in StateIx : \A j \in MuniIx(i) :
          /\ Len(MuniAt(i, j).codigo) = 4
          /\ \A k \in ParishIx(i, j) :
                /\ Len(ParishAt(i, j, k).codigo) = 6
                /\ HasPrefix(ParishAt(i, j, k).codigo, 4, MuniAt(i, j).codigo)

\* the data model with 6-character municipality codes: 4 digits and "00"
SuffixModel ==
    /\ UniqueCodes
    /\ PrefixInvariant
    /\ \A i \in StateIx : \A j \in MuniIx(i) :
          /\ Len(MuniAt(i, j).codigo) = 6
          /\ SubSeq(MuniAt(i, j).codigo, 5, 6) = <<"0", "0">>
          /\ \A k \in ParishIx(i, j) :
                /\ Len(ParishAt(i, j, k).codigo) = 6
                /\ HasPrefix(ParishAt(i, j, k).codigo, 4, SubSeq(MuniAt(i, j).codigo, 1, 4))

\* the normalised names an entity answers to
PrimaryKey(item) == normalize(item.nombre)
AltKeys(item)    == {normalize(item.nombres_alternos[a]) : a \in 1..Len(item.nombres_alternos)}
Keys(item)       == {PrimaryKey(item)} \cup AltKeys(item)

\* names are unique among siblings
UniqueStateNames ==
    \A i, i2 \in StateIx : normalize(StateAt(i).nombre) = normalize(StateAt(i2).nombre) => i = i2
UniqueMuniNames ==
    \A i \in StateIx : \A j, j2 \in MuniIx(i) :
        j # j2 => Keys(MuniAt(i, j)) \cap Keys(MuniAt(i, j2)) = {}
UniqueParishNames ==
    \A i \in StateIx : \A j \in MuniIx(i) : \A k, k2 \in ParishIx(i, j) :
        k # k2 => Keys(ParishAt(i, j, k)) \cap Keys(ParishAt(i, j, k2)) = {}

\* an entity with its derived ancestor codes
WithState(m, sc) ==
    [codigo |-> m.codigo, nombre |-> m.nombre, nombres_alternos |-> m.nombres_alternos,
     parroquias |-> m.parroquias, codigo_estado |-> sc]
WithAncestors(p, mc, sc) ==
    [codigo |-> p.codigo, nombre |-> p.nombre, nombres_alternos |-> p.nombres_alternos,
     codigo_municipio |-> mc, codigo_estado |-> sc]

(***************************************************************************)
(* C1                                                                      *)
(***************************************************************************)
\* C1 as stated: in a dataset with 4-digit municipality codes, the lookup of
\* a stored parish by its code returns that parish with the code of its
\* municipality and of its state attached.
C1_FourDigitParishByCode ==
    (FileOk /\ req.op = "parish_by_id") =>
        (FourDigitModel =>
            \A i \in StateIx : \A j \in MuniIx(i) : \A k \in ParishIx(i, j) :
                ParishAt(i, j, k).codigo = req.id =>
                    resp = Item(WithAncestors(ParishAt(i, j, k), MuniAt(i, j).codigo,
                                              StateAt(i).codigo)))

\* C1 amended: in a dataset whose municipality codes are the 4-digit prefix
\* followed by "00", the lookup of a stored parish by its code returns that
\* parish with the code of its municipality and of its state attached.
C1_ParishByCode ==
    (FileOk /\ req.op = "parish_by_id") =>
        (SuffixModel =>
            \A i \in StateIx : \A j \in MuniIx(i) : \A k \in ParishIx(i, j) :
                ParishAt(i, j, k).codigo = req.id =>
                    resp = Item(WithAncestors(ParishAt(i, j, k), MuniAt(i, j).codigo,
                                              StateAt(i).codigo)))

C1_Witness ==
    /\ FileOk
    /\ req.op = "parish_by_id"
    /\ SuffixModel
    /\ \E i \in StateIx : \E j \in MuniIx(i) : \E k \in ParishIx(i, j) :
          /\ j > 1
          /\ ParishAt(i, j, k).codigo = req.id
    /\ resp.kind = "item"

(***************************************************************************)
(* C2                                                                      *)
(***************************************************************************)
\* C2: in a dataset whose codes are unique and satisfy the prefix invariant,
\* the lookup of a stored municipality by its code returns that municipality
\* with the code of its state attached.
C2_MunicipalityByCode ==
    (FileOk /\ req.op = "municipality_by_id") =>
        ((UniqueCodes /\ PrefixInvariant) =>
            \A i \in StateIx : \A j \in MuniIx(i) :
                MuniAt(i, j).codigo = req.id =>
                    resp = Item(WithState(MuniAt(i, j), StateAt(i).codigo)))

C2_Witness ==
    /\ FileOk
    /\ req.op = "municipality_by_id"
    /\ UniqueCodes /\ PrefixInvariant
    /\ \E i \in StateIx : \E j \in MuniIx(i) :
          i > 1 /\ MuniAt(i, j).codigo = req.id
    /\ resp.kind = "item"
    /\ resp.val.codigo_estado = <<"0", "8">>

(***************************************************************************)
(* C3                                                                      *)
(***************************************************************************)
\* C3: in a dataset whose state codes and state names are unique, the lookup
\* of a stored state by its code returns that state, and the lookup by any
\* text with the same normal form as its name returns that state.
C3_StateLookup ==
    (FileOk /\ UniqueCodes /\ UniqueStateNames) =>
        /\ req.op = "state_by_id" =>
              \A i \in StateIx :
                  StateAt(i).codigo = req.id => resp = Item(StateAt(i))
        /\ req.op = "state_by_name" =>
              \A i \in StateIx :
                  normalize(StateAt(i).nombre) = normalize(req.state) =>
                      resp = Item(StateAt(i))

\* a state found under a name written with another casing and accent
C3_Witness ==
    /\ FileOk /\ UniqueCodes /\ UniqueStateNames
    /\ req.op = "state_by_name"
    /\ \E i \in StateIx :
          /\ i > 1
          /\ normalize(StateAt(i).nombre) = normalize(req.state)
          /\ StateAt(i).nombre # req.state
          /\ lower(StateAt(i).nombre) # lower(req.state)
    /\ resp.kind = "item"

(***************************************************************************)
(* C4                                                                      *)
(***************************************************************************)
\* C4: in a dataset whose names are unique among siblings, the lookup of a
\* municipality by the name of its state and any text with the normal form
\* of one of its alternate names returns that municipality, with the code of
\* the state attached.
C4_MunicipalityByAlternateName ==
    (FileOk /\ req.op = "municipality_by_name") =>
        ((UniqueCodes /\ PrefixInvariant /\ UniqueStateNames /\ UniqueMuniNames) =>
            \A i \in StateIx : \A j \in MuniIx(i) :
                (/\ normalize(StateAt(i).nombre) = normalize(req.state)
                 /\ normalize(req.municipality) \in AltKeys(MuniAt(i, j)))
                    => resp = Item(WithState(MuniAt(i, j), StateAt(i).codigo)))

\* the second municipality of a state found under an alternate name that is
\* not its primary name
C4_Witness ==
    /\ FileOk
    /\ req.op = "municipality_by_name"
    /\ UniqueCodes /\ PrefixInvariant /\ UniqueStateNames /\ UniqueMuniNames
    /\ \E i \in StateIx : \E j \in MuniIx(i) :
          /\ j > 1
          /\ normalize(StateAt(i).nombre) = normalize(req.state)
          /\ normalize(req.municipality) \in AltKeys(MuniAt(i, j))
          /\ normalize(req.municipality) # PrimaryKey(MuniAt(i, j))
          /\ req.municipality \notin
                {MuniAt(i, j).nombres_alternos[a] : a \in 1..Len(MuniAt(i, j).nombres_alternos)}
    /\ resp.kind = "item"

(***************************************************************************)
(* C5                                                                      *)
(***************************************************************************)
\* the states, municipalities and parishes a by-name request designates
StatesNamed(name) == {i \in StateIx : normalize(StateAt(i).nombre) = normalize(name)}
MunisNamed(i, name) == {j \in MuniIx(i) : normalize(name) \in Keys(MuniAt(i, j))}
ParishesNamed(i, j, name) == {k \in ParishIx(i, j) : normalize(name) \in Keys(ParishAt(i, j, k))}

\* C5: when the query has the normal form of the primary name of one
\* municipality (parish) of the designated state (municipality), the entity
\* returned is one whose primary name matches, whatever alternate names the
\* siblings before it carry.
C5_PrimaryNameWins ==
    FileOk =>
        /\ req.op = "municipality_by_name" =>
              \A i \in StateIx :
                  (/\ StatesNamed(req.state) = {i}
                   /\ \E j \in MuniIx(i) : PrimaryKey(MuniAt(i, j)) = normalize(req.municipality))
                    => (/\ resp.kind = "item"
                        /\ normalize(resp.val.nombre) = normalize(req.municipality))
        /\ req.op = "parish_by_name" =>
              \A i \in StateIx : \A j \in MuniIx(i) :
                  (/\ StatesNamed(req.state) = {i}
                   /\ MunisNamed(i, req.municipality) = {j}
                   /\ \E k \in ParishIx(i, j) :
                         PrimaryKey(ParishAt(i, j, k)) = normalize(req.parish))
                    => (/\ resp.kind = "item"
                        /\ normalize(resp.val.nombre) = normalize(req.parish))

(***************************************************************************)
(* C6                                                                      *)
(***************************************************************************)
\* no entity of the tree is designated by the request
Unknown(r) ==
    CASE r.op = "state_by_id" ->
            \A i \in StateIx : StateAt(i).codigo # r.id
      [] r.op = "state_by_name" ->
            StatesNamed(r.state) = {}
      [] r.op = "municipality_by_id" ->
            \/ \A i \in StateIx : ~HasPrefix(r.id, 2, StateAt(i).codigo)
            \/ \A i \in StateIx : \A j \in MuniIx(i) : MuniAt(i, j).codigo # r.id
      [] r.op = "municipality_by_name" ->
            \A i \in StatesNamed(r.state) : MunisNamed(i, r.municipality) = {}
      [] r.op = "parish_by_id" ->
            \/ Len(r.id) < 6
            \/ \A i \in StateIx : ~HasPrefix(r.id, 2, StateAt(i).codigo)
            \/ \A i \in StateIx : \A j \in MuniIx(i) :
                  ~HasPrefix(r.id, 4, PySlice(MuniAt(i, j).codigo, 4))
            \/ \A i \in StateIx : \A j \in MuniIx(i) : \A k \in ParishIx(i, j) :
                  ParishAt(i, j, k).codigo # r.id
      [] r.op = "parish_by_name" ->
            \A i \in StatesNamed(r.state) : \A j \in MunisNamed(i, r.municipality) :
                ParishesNamed(i, j, r.parish) = {}
      [] OTHER -> FALSE

Lookups == {"state_by_id", "state_by_name", "municipality_by_id",
            "municipality_by_name", "parish_by_id", "parish_by_name"}

\* C6: with the dataset loaded, a lookup whose code or name designates no
\* entity at some level answers the literal false, and no lookup raises.
C6_UnknownIsFalse ==
    (FileOk /\ req.op \in Lookups) =>
        /\ resp # Exception
        /\ Unknown(req) => resp = False

\* a parish code whose state exists and whose municipality does not
C6_Witness ==
    /\ FileOk
    /\ req.op = "parish_by_id"
    /\ Len(req.id) = 6
    /\ \E i \in StateIx : HasPrefix(req.id, 2, StateAt(i).codigo)
    /\ \A i \in StateIx : \A j \in MuniIx(i) :
          ~HasPrefix(req.id, 4, PySlice(MuniAt(i, j).codigo, 4))
    /\ resp = False

(***************************************************************************)
(* C9                                                                      *)
(***************************************************************************)
\* C9: with the dataset file absent, the list of state names is empty, every
\* lookup answers the literal false, and no operation raises.
C9_AbsentDataset ==
    (fs[DATA_FILE].status = "absent" /\ req # NoReq) =>
        /\ resp # Exception
        /\ req.op = "states" => resp = List(<<>>)
        /\ req.op \in Lookups => resp = False

C9_Witness ==
    /\ fs[DATA_FILE].status = "absent"
    /\ req.op = "parish_by_name"
    /\ resp = False

(***************************************************************************)
(* C10                                                                     *)
(***************************************************************************)
First(S) == CHOOSE i \in S : \A j \in S : i <= j
Last(S)  == CHOOSE i \in S : \A j \in S : j <= i

\* C10 as stated: when several municipalities of the designated state (or
\* several parishes of the designated municipality) answer to the query, the
\* one that comes last in dataset order is returned.
C10_LastWins ==
    FileOk =>
        /\ req.op = "municipality_by_name" =>
              \A i \in StateIx :
                  (StatesNamed(req.state) = {i}
                   /\ Cardinality(MunisNamed(i, req.municipality)) > 1)
                    => (/\ resp.kind = "item"
                        /\ resp.val.codigo
                             = MuniAt(i, Last(MunisNamed(i, req.municipality))).codigo)
        /\ req.op = "parish_by_name" =>
              \A i \in StateIx : \A j \in MuniIx(i) :
                  (/\ StatesNamed(req.state) = {i}
                   /\ MunisNamed(i, req.municipality) = {j}
                   /\ Cardinality(ParishesNamed(i, j, req.parish)) > 1)
                    => (/\ resp.kind = "item"
                        /\ resp.val.codigo
                             = ParishAt(i, j, Last(ParishesNamed(i, j, req.parish))).codigo)

\* C10 amended: the one that comes first in dataset order is returned.
C10_FirstWins ==
    FileOk =>
        /\ req.op = "municipality_by_name" =>
              \A i \in StateIx :
                  (StatesNamed(req.state) = {i}
                   /\ Cardinality(MunisNamed(i, req.municipality)) > 1)
                    => (/\ resp.kind = "item"
                        /\ resp.val.codigo
                             = MuniAt(i, First(MunisNamed(i, req.municipality))).codigo)
        /\ req.op = "parish_by_name" =>
              \A i \in StateIx : \A j \in MuniIx(i) :
                  (/\ StatesNamed(req.state) = {i}
                   /\ MunisNamed(i, req.municipality) = {j}
                   /\ Cardinality(ParishesNamed(i, j, req.parish)) > 1)
                    => (/\ resp.kind = "item"
                        /\ resp.val.codigo
                             = ParishAt(i, j, First(ParishesNamed(i, j, req.parish))).codigo)

\* two parishes of one municipality share an alternate name, and it is asked for
C10_Witness ==
    /\ FileOk
    /\ req.op = "parish_by_name"
    /\ \E i \in StateIx : \E j \in MuniIx(i) :
          /\ StatesNamed(req.state) = {i}
          /\ MunisNamed(i, req.municipality) = {j}
          /\ \E k, k2 \in ParishIx(i, j) :
                /\ k # k2
                /\ normalize(req.parish) \in AltKeys(ParishAt(i, j, k)) \ {PrimaryKey(ParishAt(i, j, k))}
                /\ normalize(req.parish) \in AltKeys(ParishAt(i, j, k2)) \ {PrimaryKey(ParishAt(i, j, k2))}
    /\ resp.kind = "item"

(***************************************************************************)
(* C7                                                                      *)
(***************************************************************************)
Derived == {"codigo_estado", "codigo_municipio"}

CleanParish(p) == DOMAIN p \cap Derived = {}
CleanParishes(m) == \A k \in 1..Len(m.parroquias) : CleanParish(m.parroquias[k])
CleanMuni(m) == DOMAIN m \cap Derived = {} /\ CleanParishes(m)
CleanState(s) == \A j \in 1..Len(s.municipios) : CleanMuni(s.municipios[j])

\* C7: the file is never changed; "all" answers the stored tree; a request
\* equal to the first request of the run gets the response the first one
\* got; and a response carries no derived field but those its own lookup
\* attached (none in a state or in the whole tree, none in the parishes of a
\* municipality).
C7_DatasetUnchanged ==
    /\ rem.set => fs[DATA_FILE] = rem.file
    /\ (FileOk /\ req.op = "all") => resp = Item(fs[DATA_FILE].data)
    /\ (rem.set /\ req = rem.req) => resp = rem.resp
    /\ (resp.kind = "item" /\ req.op = "all") =>
          \A i \in 1..Len(resp.val.estados) : CleanState(resp.val.estados[i])
    /\ (resp.kind = "item" /\ req.op \in {"state_by_id", "state_by_name"}) =>
          CleanState(resp.val)
    /\ (resp.kind = "item" /\ req.op \in {"municipality_by_id", "municipality_by_name"}) =>
          (DOMAIN resp.val \cap Derived = {"codigo_estado"} /\ CleanParishes(resp.val))

\* the whole tree is asked for in a run whose first request was a successful
\* parish lookup
C7_Witness ==
    /\ rem.set
    /\ rem.req.op = "parish_by_id"
    /\ rem.resp.kind = "item"
    /\ req.op = "all"
    /\ resp.kind = "item"

(***************************************************************************)
(* C8                                                                      *)
(***************************************************************************)
\* C8 as stated: normalising a normalised text changes nothing, for every
\* text; and "Tachira" written with an accent and a capital normalises to the
\* same text as written without.
C8_IdempotentEveryText ==
    /\ resp.kind = "text" => normalize(resp.val) = resp.val
    /\ (resp.kind = "text" /\ req.text \in {Tachira, tachira}) => resp.val = tachira

\* C8 amended: normalising a normalised text changes nothing, for every text
\* made of ASCII characters and accented Latin letters; and "Tachira" written
\* with an accent and a capital normalises to the same text as written
\* without.
C8_IdempotentLatinText ==
    /\ (resp.kind = "text" /\ \A n \in 1..Len(req.text) : req.text[n] \in LatinChars)
          => normalize(resp.val) = resp.val
    /\ (resp.kind = "text" /\ req.text \in {Tachira, tachira}) => resp.val = tachira

C8_Witness ==
    /\ resp.kind = "text"
    /\ req.text = Tachira
    /\ resp.val = tachira

====
